---- MODULE Spec2Model ----
(***************************************************************************)
(* A model of the poll-based futures of src/lib.rs: the Future contract,   *)
(* reference forwarding, the AsFuture adapter over generators, the async!  *)
(* and await! macros, and the combinators map, select, race and join.      *)
(*                                                                         *)
(* Futures live in a memory `mem.objs` (a sequence of objects addressed by *)
(* their index); a future is reached through a handle that is either the   *)
(* owned value or a mutable borrow of it.  A generator is an object with   *)
(* its resume position (`state`) and its captured locals.  `poll` is the   *)
(* code's poll, computed as the code computes it; `mem.log` records the    *)
(* polls of leaf futures made during one poll of the driver.               *)
(***************************************************************************)
EXTENDS Integers, Sequences, FiniteSets, TLC

\* Largest number of Suspended results a leaf future gives before Completed.
MaxN == 3
\* Largest number of polls the driver makes of a future that already completed.
MaxExtra == 2

\* Result values of the leaf futures.
Vals == {5, 7}
\* What a leaf future does when it is polled after it completed (the contract
\* leaves it open): it panics, says Suspended again, or repeats its value.
AfterKinds == {"Panic", "Yielded", "Complete"}

\* The driver gives up after this many polls of a future that never completes
\* (two futures awaited one after the other take up to 2 * MaxN + 1 polls).
MaxRounds == 2 * MaxN + 2

VARIABLES mem, kind, hist, loser, lhist, cfg

vars == <<mem, kind, hist, loser, lhist, cfg>>

----------------------------------------------------------------------------
\* Poll<R> = GeneratorState<NotReady, R>, and the unwinding of a panic.

NotReady == [unit |-> TRUE]

Complete(r) == [tag |-> "Complete", val |-> r]

Yielded(y) == [tag |-> "Yielded", val |-> y]

Panic == [tag |-> "Panic", val |-> NotReady]

\* Option<R>, as join's ra and rb.
None == [some |-> FALSE, v |-> 0]

Some(r) == [some |-> TRUE, v |-> r]

\* A handle on a future: the future itself (owned) or `&mut` of it.
Own(id) == [ref |-> FALSE, id |-> id]

RefMut(h) == [ref |-> TRUE, id |-> h.id]

NoFuture == Own(0)

\* enum OneOf<A, B> { A(A), B(B) }
OneOf_A(a) == [tag |-> "A", fut |-> a]

OneOf_B(b) == [tag |-> "B", fut |-> b]

\* The closure handed to map; the spec's example doubles.
f(v) == v * 2

----------------------------------------------------------------------------
\* Objects of the memory.

\* A leaf future: Suspended `left` more times, then Completed(val); with
\* `left` = Never it is Suspended at every poll.
Leaf(n, v, after) ==
    [type |-> "Leaf", left |-> n, val |-> v, polls |-> 0, done |-> FALSE,
     after |-> after]

\* AsFuture(static move || { body }): a generator that was not resumed yet,
\* with the variables its body captures.
Generator(body, a, b) ==
    [type |-> "AsFuture", body |-> body, state |-> "Unresumed",
     a |-> a, b |-> b, future |-> NoFuture, ra |-> None, rb |-> None,
     fcalls |-> 0]

async_await(future) == Generator("await", future, NoFuture)

map(future) == Generator("map", future, NoFuture)

select(a, b) == Generator("select", a, b)

race(a, b) == Generator("race", a, b)

join(a, b) == Generator("join", a, b)

\* async! { let x = await!(a); let y = await!(b); (x, y) }
async_seq(a, b) == Generator("seq", a, b)

Never == 0 - 1

\* The two futures the driver builds its combinator from.
A == 1

B == 2

ROOT == B + 1

InitMem(c) ==
    [objs |-> <<Leaf(c.na, c.va, c.after), Leaf(c.nb, c.vb, c.after)>>,
     log |-> <<>>]

Alloc(m, obj) == [m EXCEPT !.objs = Append(@, obj)]

\* The generator `id` leaves its resume in position `st`.
Leave(m, id, st) == [m EXCEPT !.objs[id].state = st]

Out(res, m) == [res |-> res, m |-> m]

----------------------------------------------------------------------------
\* poll

\* poll, the generator bodies that call it and resume, which runs the bodies,
\* are defined in terms of each other.
RECURSIVE poll(_, _)
RECURSIVE RefMut_poll(_, _)
RECURSIVE OneOf_poll(_, _)
RECURSIVE await(_, _)
RECURSIVE await_body(_, _)
RECURSIVE map_body(_, _)
RECURSIVE select_body(_, _)
RECURSIVE race_body(_, _)
RECURSIVE join_body(_, _)
RECURSIVE seq_body(_, _)
RECURSIVE resume(_, _)
RECURSIVE AsFuture_poll(_, _)

\* A leaf's poll (an implementor of Future outside this crate).
LeafPoll(m, id) ==
    LET o == m.objs[id]
        r == IF o.done
             THEN CASE o.after = "Panic" -> Panic
                    [] o.after = "Yielded" -> Yielded(NotReady)
                    [] OTHER -> Complete(o.val)
             ELSE IF o.left = 0 THEN Complete(o.val) ELSE Yielded(NotReady)
        o2 == [o EXCEPT !.polls = @ + 1,
                        !.left = IF @ > 0 THEN @ - 1 ELSE @,
                        !.done = o.done \/ o.left = 0]
    IN  Out(r, [objs |-> [m.objs EXCEPT ![id] = o2],
                log |-> Append(m.log, [id |-> id, res |-> r])])

\* A borrow with progress state of its own: it polls a copy of the future, and
\* the future itself is not advanced.
RefMut_poll_copy(m, self) == Out(poll(m, Own(self.id)).res, m)

\* impl Future for &mut T
RefMut_poll(m, self) == poll(m, Own(self.id))

\* OneOf's poll advancing its future a second time when the first poll is
\* Suspended.
OneOf_poll_twice(m, self) ==
    LET p == poll(m, self.fut)
    IN  IF p.res.tag = "Yielded" THEN poll(p.m, self.fut) ELSE p

\* impl Future for OneOf<A, B>
OneOf_poll(m, self) ==
    CASE self.tag = "A" -> poll(m, self.fut)
      [] self.tag = "B" -> poll(m, self.fut)

\* await! with the yield missing from its Yielded arm: the loop polls the
\* future again at once.
await_no_yield(m, future) ==
    LET p == poll(m, future)
        q == IF p.res.tag = "Yielded" THEN poll(p.m, future) ELSE p
    IN  CASE q.res.tag = "Complete" -> [ctl |-> "break", r |-> q.res.val, m |-> q.m]
          [] q.res.tag = "Yielded" -> [ctl |-> "yield", r |-> q.res.val, m |-> q.m]
          [] OTHER -> [ctl |-> "unwind", r |-> NotReady, m |-> q.m]

\* await!($e), one turn of its loop: the poll and the match on its result.
await(m, future) ==
    LET p == poll(m, future)
    IN  CASE p.res.tag = "Complete" -> [ctl |-> "break", r |-> p.res.val, m |-> p.m]
          [] p.res.tag = "Yielded" -> [ctl |-> "yield", r |-> p.res.val, m |-> p.m]
          [] OTHER -> [ctl |-> "unwind", r |-> NotReady, m |-> p.m]

\* async! { await!(future) }
await_body(m, id) ==
    LET g == m.objs[id]
        w == await(m, g.a)
    IN  CASE w.ctl = "break" -> Out(Complete(w.r), Leave(w.m, id, "Returned"))
          [] w.ctl = "yield" -> Out(Yielded(w.r), Leave(w.m, id, "Suspended"))
          [] OTHER -> Out(Panic, Leave(w.m, id, "Poisoned"))

\* map returning the future's result without applying f.
map_body_no_f(m, id) ==
    LET g == m.objs[id]
        w == await(m, g.a)
    IN  CASE w.ctl = "break" -> Out(Complete(w.r), Leave(w.m, id, "Returned"))
          [] w.ctl = "yield" -> Out(Yielded(w.r), Leave(w.m, id, "Suspended"))
          [] OTHER -> Out(Panic, Leave(w.m, id, "Poisoned"))

\* async! { f(await!(future)) }
map_body(m, id) ==
    LET g == m.objs[id]
        w == await(m, g.a)
    IN  CASE w.ctl = "break" ->
               Out(Complete(f(w.r)),
                   [Leave(w.m, id, "Returned") EXCEPT !.objs[id].fcalls = @ + 1])
          [] w.ctl = "yield" -> Out(Yielded(w.r), Leave(w.m, id, "Suspended"))
          [] OTHER -> Out(Panic, Leave(w.m, id, "Poisoned"))

\* select polling b before a.
select_body_b_first(m, id) ==
    LET g == m.objs[id]
        pb == poll(m, g.b)
    IN  CASE pb.res.tag = "Complete" ->
               Out(Complete(<<pb.res.val, OneOf_A(g.a)>>), Leave(pb.m, id, "Returned"))
          [] pb.res.tag = "Panic" -> Out(Panic, Leave(pb.m, id, "Poisoned"))
          [] OTHER ->
               LET pa == poll(pb.m, g.a)
               IN  CASE pa.res.tag = "Complete" ->
                          Out(Complete(<<pa.res.val, OneOf_B(g.b)>>),
                              Leave(pa.m, id, "Returned"))
                     [] pa.res.tag = "Yielded" ->
                          Out(Yielded(pa.res.val), Leave(pa.m, id, "Suspended"))
                     [] OTHER -> Out(Panic, Leave(pa.m, id, "Poisoned"))

\* select polling both a and b before it looks at either result.
select_body_poll_both(m, id) ==
    LET g == m.objs[id]
        pa == poll(m, g.a)
        pb == poll(pa.m, g.b)
    IN  CASE pa.res.tag = "Panic" -> Out(Panic, Leave(pa.m, id, "Poisoned"))
          [] pa.res.tag = "Complete" ->
               Out(Complete(<<pa.res.val, OneOf_B(g.b)>>), Leave(pb.m, id, "Returned"))
          [] pa.res.tag = "Yielded" /\ pb.res.tag = "Complete" ->
               Out(Complete(<<pb.res.val, OneOf_A(g.a)>>), Leave(pb.m, id, "Returned"))
          [] pa.res.tag = "Yielded" /\ pb.res.tag = "Yielded" ->
               Out(Yielded(pb.res.val), Leave(pb.m, id, "Suspended"))
          [] OTHER -> Out(Panic, Leave(pb.m, id, "Poisoned"))

\* select yielding a's Suspended at once: b is polled in no round.
select_body_a_only(m, id) ==
    LET g == m.objs[id]
        pa == poll(m, g.a)
    IN  CASE pa.res.tag = "Complete" ->
               Out(Complete(<<pa.res.val, OneOf_B(g.b)>>), Leave(pa.m, id, "Returned"))
          [] pa.res.tag = "Yielded" ->
               Out(Yielded(pa.res.val), Leave(pa.m, id, "Suspended"))
          [] OTHER -> Out(Panic, Leave(pa.m, id, "Poisoned"))

\* select with a yield in the Yielded arm of a's poll as well: a's Suspended is
\* surfaced and the next resume goes on with b.
select_body_two_yields(m, id) ==
    LET g == m.objs[id]
    IN  IF g.state = "SuspendedA"
        THEN LET pb == poll(m, g.b)
             IN  CASE pb.res.tag = "Complete" ->
                        Out(Complete(<<pb.res.val, OneOf_A(g.a)>>),
                            Leave(pb.m, id, "Returned"))
                   [] pb.res.tag = "Yielded" ->
                        Out(Yielded(pb.res.val), Leave(pb.m, id, "Suspended"))
                   [] OTHER -> Out(Panic, Leave(pb.m, id, "Poisoned"))
        ELSE LET pa == poll(m, g.a)
             IN  CASE pa.res.tag = "Complete" ->
                        Out(Complete(<<pa.res.val, OneOf_B(g.b)>>),
                            Leave(pa.m, id, "Returned"))
                   [] pa.res.tag = "Yielded" ->
                        Out(Yielded(pa.res.val), Leave(pa.m, id, "SuspendedA"))
                   [] OTHER -> Out(Panic, Leave(pa.m, id, "Poisoned"))

\* select's loop, from its top to the return or the yield.
select_body(m, id) ==
    LET g == m.objs[id]
        pa == poll(m, g.a)
    IN  CASE pa.res.tag = "Complete" ->
               Out(Complete(<<pa.res.val, OneOf_B(g.b)>>), Leave(pa.m, id, "Returned"))
          [] pa.res.tag = "Panic" -> Out(Panic, Leave(pa.m, id, "Poisoned"))
          [] OTHER ->
               LET pb == poll(pa.m, g.b)
               IN  CASE pb.res.tag = "Complete" ->
                          Out(Complete(<<pb.res.val, OneOf_A(g.a)>>),
                              Leave(pb.m, id, "Returned"))
                     [] pb.res.tag = "Yielded" ->
                          Out(Yielded(pb.res.val), Leave(pb.m, id, "Suspended"))
                     [] OTHER -> Out(Panic, Leave(pb.m, id, "Poisoned"))

\* race racing select(&mut b, &mut a).
race_body_swapped(m, id) ==
    LET g == m.objs[id]
        m1 == IF g.state = "Unresumed"
              THEN [Alloc(m, select(RefMut(g.b), RefMut(g.a)))
                      EXCEPT !.objs[id].future = Own(Len(m.objs) + 1)]
              ELSE m
        w == await(m1, m1.objs[id].future)
    IN  CASE w.ctl = "break" -> Out(Complete(w.r[1]), Leave(w.m, id, "Returned"))
          [] w.ctl = "yield" -> Out(Yielded(w.r), Leave(w.m, id, "Suspended"))
          [] OTHER -> Out(Panic, Leave(w.m, id, "Poisoned"))

\* async! { await!(select(&mut a, &mut b)).0 }: the first resume builds the
\* select future over borrows of a and b, every resume awaits it.
race_body(m, id) ==
    LET g == m.objs[id]
        m1 == IF g.state = "Unresumed"
              THEN [Alloc(m, select(RefMut(g.a), RefMut(g.b)))
                      EXCEPT !.objs[id].future = Own(Len(m.objs) + 1)]
              ELSE m
        w == await(m1, m1.objs[id].future)
    IN  CASE w.ctl = "break" -> Out(Complete(w.r[1]), Leave(w.m, id, "Returned"))
          [] w.ctl = "yield" -> Out(Yielded(w.r), Leave(w.m, id, "Suspended"))
          [] OTHER -> Out(Panic, Leave(w.m, id, "Poisoned"))

\* join polling a in every round, whether or not it has a's result.
join_body_repoll(m, id) ==
    LET g == m.objs[id]
        pa == poll(m, g.a)
        polledA == TRUE
        ra == IF polledA /\ pa.res.tag = "Complete" THEN Some(pa.res.val) ELSE g.ra
        yieldA == polledA /\ pa.res.tag = "Yielded"
        pb == IF ~g.rb.some THEN poll(pa.m, g.b) ELSE Out(Yielded(NotReady), pa.m)
        polledB == ~g.rb.some
        rb == IF polledB /\ pb.res.tag = "Complete" THEN Some(pb.res.val) ELSE g.rb
        yieldB == polledB /\ pb.res.tag = "Yielded"
        must_yield == yieldA \/ yieldB
        saved == [pb.m EXCEPT !.objs[id].ra = ra, !.objs[id].rb = rb]
    IN  CASE polledA /\ pa.res.tag = "Panic" -> Out(Panic, Leave(pa.m, id, "Poisoned"))
          [] ~(polledA /\ pa.res.tag = "Panic") /\ polledB /\ pb.res.tag = "Panic" ->
               Out(Panic, Leave(saved, id, "Poisoned"))
          [] OTHER ->
               IF must_yield
               THEN Out(Yielded(NotReady), Leave(saved, id, "Suspended"))
               ELSE IF ra.some /\ rb.some
                    THEN Out(Complete(<<ra.v, rb.v>>), Leave(saved, id, "Returned"))
                    ELSE Out(Panic, Leave(saved, id, "Poisoned"))

\* join yielding after every round in which it polled an input.
join_body_extra_yield(m, id) ==
    LET g == m.objs[id]
        pa == IF ~g.ra.some THEN poll(m, g.a) ELSE Out(Yielded(NotReady), m)
        polledA == ~g.ra.some
        ra == IF polledA /\ pa.res.tag = "Complete" THEN Some(pa.res.val) ELSE g.ra
        yieldA == polledA /\ pa.res.tag = "Yielded"
        pb == IF ~g.rb.some THEN poll(pa.m, g.b) ELSE Out(Yielded(NotReady), pa.m)
        polledB == ~g.rb.some
        rb == IF polledB /\ pb.res.tag = "Complete" THEN Some(pb.res.val) ELSE g.rb
        yieldB == polledB /\ pb.res.tag = "Yielded"
        must_yield == polledA \/ polledB
        saved == [pb.m EXCEPT !.objs[id].ra = ra, !.objs[id].rb = rb]
    IN  CASE polledA /\ pa.res.tag = "Panic" -> Out(Panic, Leave(pa.m, id, "Poisoned"))
          [] ~(polledA /\ pa.res.tag = "Panic") /\ polledB /\ pb.res.tag = "Panic" ->
               Out(Panic, Leave(saved, id, "Poisoned"))
          [] OTHER ->
               IF must_yield
               THEN Out(Yielded(NotReady), Leave(saved, id, "Suspended"))
               ELSE IF ra.some /\ rb.some
                    THEN Out(Complete(<<ra.v, rb.v>>), Leave(saved, id, "Returned"))
                    ELSE Out(Panic, Leave(saved, id, "Poisoned"))

\* join polling b before a.
join_body_b_first(m, id) ==
    LET g == m.objs[id]
        pb == IF ~g.rb.some THEN poll(m, g.b) ELSE Out(Yielded(NotReady), m)
        polledB == ~g.rb.some
        rb == IF polledB /\ pb.res.tag = "Complete" THEN Some(pb.res.val) ELSE g.rb
        yieldB == polledB /\ pb.res.tag = "Yielded"
        pa == IF ~g.ra.some THEN poll(pb.m, g.a) ELSE Out(Yielded(NotReady), pb.m)
        polledA == ~g.ra.some
        ra == IF polledA /\ pa.res.tag = "Complete" THEN Some(pa.res.val) ELSE g.ra
        yieldA == polledA /\ pa.res.tag = "Yielded"
        must_yield == yieldA \/ yieldB
        saved == [pa.m EXCEPT !.objs[id].ra = ra, !.objs[id].rb = rb]
    IN  CASE polledB /\ pb.res.tag = "Panic" -> Out(Panic, Leave(pb.m, id, "Poisoned"))
          [] ~(polledB /\ pb.res.tag = "Panic") /\ polledA /\ pa.res.tag = "Panic" ->
               Out(Panic, Leave(saved, id, "Poisoned"))
          [] OTHER ->
               IF must_yield
               THEN Out(Yielded(NotReady), Leave(saved, id, "Suspended"))
               ELSE IF ra.some /\ rb.some
                    THEN Out(Complete(<<ra.v, rb.v>>), Leave(saved, id, "Returned"))
                    ELSE Out(Panic, Leave(saved, id, "Poisoned"))

\* join with ra and rb declared inside its loop: a result is forgotten when
\* the round yields.
join_body_locals_in_loop(m, id) ==
    LET g == m.objs[id]
        pa == poll(m, g.a)
        ra == IF pa.res.tag = "Complete" THEN Some(pa.res.val) ELSE None
        pb == poll(pa.m, g.b)
        rb == IF pb.res.tag = "Complete" THEN Some(pb.res.val) ELSE None
        must_yield == pa.res.tag = "Yielded" \/ pb.res.tag = "Yielded"
    IN  CASE pa.res.tag = "Panic" -> Out(Panic, Leave(pa.m, id, "Poisoned"))
          [] pa.res.tag # "Panic" /\ pb.res.tag = "Panic" ->
               Out(Panic, Leave(pb.m, id, "Poisoned"))
          [] OTHER ->
               IF must_yield
               THEN Out(Yielded(NotReady), Leave(pb.m, id, "Suspended"))
               ELSE Out(Complete(<<ra.v, rb.v>>), Leave(pb.m, id, "Returned"))

\* join's loop, from its top to the return or the yield.
join_body(m, id) ==
    LET g == m.objs[id]
        pa == IF ~g.ra.some THEN poll(m, g.a) ELSE Out(Yielded(NotReady), m)
        polledA == ~g.ra.some
        ra == IF polledA /\ pa.res.tag = "Complete" THEN Some(pa.res.val) ELSE g.ra
        yieldA == polledA /\ pa.res.tag = "Yielded"
        pb == IF ~g.rb.some THEN poll(pa.m, g.b) ELSE Out(Yielded(NotReady), pa.m)
        polledB == ~g.rb.some
        rb == IF polledB /\ pb.res.tag = "Complete" THEN Some(pb.res.val) ELSE g.rb
        yieldB == polledB /\ pb.res.tag = "Yielded"
        must_yield == yieldA \/ yieldB
        saved == [pb.m EXCEPT !.objs[id].ra = ra, !.objs[id].rb = rb]
    IN  CASE polledA /\ pa.res.tag = "Panic" -> Out(Panic, Leave(pa.m, id, "Poisoned"))
          [] ~(polledA /\ pa.res.tag = "Panic") /\ polledB /\ pb.res.tag = "Panic" ->
               Out(Panic, Leave(saved, id, "Poisoned"))
          [] OTHER ->
               IF must_yield
               THEN Out(Yielded(NotReady), Leave(saved, id, "Suspended"))
               ELSE IF ra.some /\ rb.some
                    THEN Out(Complete(<<ra.v, rb.v>>), Leave(saved, id, "Returned"))
                    ELSE Out(Panic, Leave(saved, id, "Poisoned"))

\* Two awaits in sequence whose generator keeps no position: every resume
\* starts again at the first await.
seq_body_restart(m, id) ==
    LET g == m.objs[id]
        w1 == await(m, g.a)
        m1 == [w1.m EXCEPT !.objs[id].ra = Some(w1.r)]
        w2 == await(m1, g.b)
    IN  CASE w1.ctl = "yield" -> Out(Yielded(w1.r), Leave(w1.m, id, "Suspended"))
          [] w1.ctl = "unwind" -> Out(Panic, Leave(w1.m, id, "Poisoned"))
          [] w1.ctl = "break" /\ w2.ctl = "break" ->
               Out(Complete(<<m1.objs[id].ra.v, w2.r>>), Leave(w2.m, id, "Returned"))
          [] w1.ctl = "break" /\ w2.ctl = "yield" ->
               Out(Yielded(w2.r), Leave(w2.m, id, "Suspended2"))
          [] OTHER -> Out(Panic, Leave(w2.m, id, "Poisoned"))

\* async! { let x = await!(a); let y = await!(b); (x, y) }: the generator is
\* resumed inside the loop of the await it yielded from ("Suspended" in the
\* first, "Suspended2" in the second), with x kept in its frame (ra).
seq_body(m, id) ==
    LET g == m.objs[id]
        first == g.state # "Suspended2"
        w1 == await(m, g.a)
        m1 == IF first THEN [w1.m EXCEPT !.objs[id].ra = Some(w1.r)] ELSE m
        w2 == await(m1, g.b)
    IN  CASE first /\ w1.ctl = "yield" ->
               Out(Yielded(w1.r), Leave(w1.m, id, "Suspended"))
          [] first /\ w1.ctl = "unwind" -> Out(Panic, Leave(w1.m, id, "Poisoned"))
          [] (first => w1.ctl = "break") /\ w2.ctl = "break" ->
               Out(Complete(<<m1.objs[id].ra.v, w2.r>>), Leave(w2.m, id, "Returned"))
          [] (first => w1.ctl = "break") /\ w2.ctl = "yield" ->
               Out(Yielded(w2.r), Leave(w2.m, id, "Suspended2"))
          [] OTHER -> Out(Panic, Leave(w2.m, id, "Poisoned"))

\* resume without the check of the generator's state: the body runs again from
\* its last position.
resume_unchecked(m, id) ==
    LET g == m.objs[id]
    IN  CASE g.body = "await" -> await_body(m, id)
          [] g.body = "map" -> map_body(m, id)
          [] g.body = "select" -> select_body(m, id)
          [] g.body = "race" -> race_body(m, id)
          [] g.body = "join" -> join_body(m, id)
          [] g.body = "seq" -> seq_body(m, id)

\* Generator::resume: a generator that returned or panicked panics when it is
\* resumed; otherwise its body runs to the next yield or to its return.
resume(m, id) ==
    LET g == m.objs[id]
    IN  IF g.state \in {"Returned", "Poisoned"}
        THEN Out(Panic, m)
        ELSE CASE g.body = "await" -> await_body(m, id)
               [] g.body = "map" -> map_body(m, id)
               [] g.body = "select" -> select_body(m, id)
               [] g.body = "race" -> race_body(m, id)
               [] g.body = "join" -> join_body(m, id)
               [] g.body = "seq" -> seq_body(m, id)

\* impl Future for AsFuture<T>
AsFuture_poll(m, id) == resume(m, id)

\* Future::poll on a handle, dispatched on what the handle is.
poll(m, h) ==
    IF h.ref THEN RefMut_poll(m, h)
    ELSE IF m.objs[h.id].type = "Leaf" THEN LeafPoll(m, h.id)
    ELSE AsFuture_poll(m, h.id)

----------------------------------------------------------------------------
\* The driver: it builds one future over the leaves a and b and polls it.

Configs ==
    [na : 0..MaxN, nb : 0..MaxN, va : Vals, vb : Vals, after : AfterKinds]

Init ==
    /\ cfg \in Configs
    /\ mem = InitMem(cfg)
    /\ kind = "none"
    /\ hist = <<>>
    /\ loser = None
    /\ lhist = <<>>

\* async! { await!(a) }
NewAwait ==
    /\ kind = "none"
    /\ kind' = "await"
    /\ mem' = Alloc(mem, async_await(Own(A)))
    /\ UNCHANGED <<hist, loser, lhist, cfg>>

\* map(a, f)
NewMap ==
    /\ kind = "none"
    /\ kind' = "map"
    /\ mem' = Alloc(mem, map(Own(A)))
    /\ UNCHANGED <<hist, loser, lhist, cfg>>

\* select(a, b)
NewSelect ==
    /\ kind = "none"
    /\ kind' = "select"
    /\ mem' = Alloc(mem, select(Own(A), Own(B)))
    /\ UNCHANGED <<hist, loser, lhist, cfg>>

\* race(a, b)
NewRace ==
    /\ kind = "none"
    /\ kind' = "race"
    /\ mem' = Alloc(mem, race(Own(A), Own(B)))
    /\ UNCHANGED <<hist, loser, lhist, cfg>>

\* join(a, b)
NewJoin ==
    /\ kind = "none"
    /\ kind' = "join"
    /\ mem' = Alloc(mem, join(Own(A), Own(B)))
    /\ UNCHANGED <<hist, loser, lhist, cfg>>

\* async! { let x = await!(a); let y = await!(b); (x, y) }
NewSeq ==
    /\ kind = "none"
    /\ kind' = "seq"
    /\ mem' = Alloc(mem, async_seq(Own(A), Own(B)))
    /\ UNCHANGED <<hist, loser, lhist, cfg>>

\* let mut j = join(a, b), which the driver polls as j and as &mut j.
NewBorrow ==
    /\ kind = "none"
    /\ kind' = "borrow"
    /\ mem' = Alloc(mem, join(Own(A), Own(B)))
    /\ UNCHANGED <<hist, loser, lhist, cfg>>

\* The third future of the nestings, and the futures nested in the outermost.
C == ROOT + 1

I1 == C + 1

I2 == I1 + 1

Shapes ==
    {"join(race(a,b),c)", "race(race(a,b),c)", "join(map(a),join(b,c))",
     "select(map(a),race(b,c))", "await(join(join(a,b),c))",
     "join(select(a,b),c)"}

\* The objects of a nesting, from the outermost future (at ROOT) on.
NestedObjs(shape, c) ==
    CASE shape = "join(race(a,b),c)" ->
           <<join(Own(I1), Own(C)), c, race(Own(A), Own(B))>>
      [] shape = "race(race(a,b),c)" ->
           <<race(Own(I1), Own(C)), c, race(Own(A), Own(B))>>
      [] shape = "join(map(a),join(b,c))" ->
           <<join(Own(I1), Own(I2)), c, map(Own(A)), join(Own(B), Own(C))>>
      [] shape = "select(map(a),race(b,c))" ->
           <<select(Own(I1), Own(I2)), c, map(Own(A)), race(Own(B), Own(C))>>
      [] shape = "await(join(join(a,b),c))" ->
           <<async_await(Own(I1)), c, join(Own(I2), Own(C)), join(Own(A), Own(B))>>
      [] shape = "join(select(a,b),c)" ->
           <<join(Own(I1), Own(C)), c, select(Own(A), Own(B))>>

\* A combinator over combinators over the leaves a, b and a third leaf c.
NewNested ==
    /\ kind = "none"
    /\ \E shape \in Shapes, nc \in 0..MaxN, vc \in Vals :
         /\ kind' = shape
         /\ cfg' = [na |-> cfg.na, nb |-> cfg.nb, va |-> cfg.va, vb |-> cfg.vb,
                    after |-> cfg.after, nc |-> nc, vc |-> vc]
         /\ mem' = [mem EXCEPT
                      !.objs = @ \o NestedObjs(shape, Leaf(nc, vc, cfg.after))]
    /\ UNCHANGED <<hist, loser, lhist>>

\* The index of the poll that returned Completed, 0 if none did.
DoneAt(h) ==
    IF \E i \in 1..Len(h) : h[i].res.tag = "Complete"
    THEN CHOOSE i \in 1..Len(h) :
           /\ h[i].res.tag = "Complete"
           /\ \A j \in 1..(i - 1) : h[j].res.tag # "Complete"
    ELSE 0

Stopped(h) == \E i \in 1..Len(h) : h[i].res.tag \in {"Complete", "Panic"}

PollRoot ==
    LET p == AsFuture_poll([mem EXCEPT !.log = <<>>], ROOT)
    IN  /\ mem' = p.m
        /\ hist' = Append(hist, [res |-> p.res, log |-> p.m.log])
        /\ loser' = IF kind = "select" /\ p.res.tag = "Complete"
                    THEN Some(p.res.val[2]) ELSE loser
        /\ UNCHANGED <<kind, lhist, cfg>>

\* The driver has a future that has not completed (and has not given up).
PollEnabled ==
    /\ kind # "none"
    /\ ~Stopped(hist)
    /\ Len(hist) < MaxRounds

\* A poll the contract allows: the future has not completed.
Poll ==
    /\ PollEnabled
    /\ PollRoot

\* A poll the contract forbids: the future completed (or panicked) before.
PollCompleted ==
    /\ kind # "none"
    /\ Stopped(hist)
    /\ Len(hist) < MaxRounds + MaxExtra
    /\ \E i \in 1..Len(hist) :
         /\ hist[i].res.tag \in {"Complete", "Panic"}
         /\ Len(hist) - i < MaxExtra
         /\ \A j \in 1..(i - 1) : hist[j].res.tag \notin {"Complete", "Panic"}
    /\ PollRoot

\* A poll of the driver's future through a mutable borrow of it; lhist notes
\* which of the polls in hist were made this way (their polls of the leaf
\* futures are recorded once, in hist).
PollBorrowed ==
    /\ kind = "borrow"
    /\ PollEnabled
    /\ LET p == poll([mem EXCEPT !.log = <<>>], RefMut(Own(ROOT)))
       IN  /\ mem' = p.m
           /\ hist' = Append(hist, [res |-> p.res, log |-> p.m.log])
           /\ lhist' = Append(lhist, [res |-> p.res, log |-> <<>>,
                                      at |-> Len(hist) + 1])
    /\ UNCHANGED <<kind, loser, cfg>>

\* The driver goes on with the future select handed back.
PollOneOf ==
    /\ loser.some
    /\ ~Stopped(lhist)
    /\ Len(lhist) < MaxRounds
    /\ LET p == OneOf_poll([mem EXCEPT !.log = <<>>], loser.v)
       IN  /\ mem' = p.m
           /\ lhist' = Append(lhist, [res |-> p.res, log |-> p.m.log])
    /\ UNCHANGED <<kind, hist, loser, cfg>>

Next ==
    \/ NewAwait
    \/ NewMap
    \/ NewSelect
    \/ NewRace
    \/ NewJoin
    \/ NewSeq
    \/ NewBorrow
    \/ NewNested
    \/ Poll
    \/ PollCompleted
    \/ PollBorrowed
    \/ PollOneOf

Spec == Init /\ [][Next]_vars

\* A driver that builds map, select, race or join over leaves of which either
\* may never complete, and goes on polling as long as its future returns
\* Suspended.
FairConfigs ==
    [na : Never..MaxN, nb : Never..MaxN, va : Vals, vb : Vals, after : {"Panic"}]

FairInit ==
    /\ cfg \in FairConfigs
    /\ mem = InitMem(cfg)
    /\ kind = "none"
    /\ hist = <<>>
    /\ loser = None
    /\ lhist = <<>>

FairNext ==
    \/ NewMap
    \/ NewSelect
    \/ NewRace
    \/ NewJoin
    \/ Poll

\* Weak fairness of Poll, written out: Poll is enabled exactly when PollEnabled
\* holds (PollRoot then always has a successor, which lengthens hist), so this
\* is WF_vars(Poll) with PollEnabled in the place of ENABLED <<Poll>>_vars.
FairSpec ==
    /\ FairInit
    /\ [][FairNext]_vars
    /\ ([]<>(~PollEnabled) \/ []<><<Poll>>_vars)

----------------------------------------------------------------------------
\* What the driver saw: the polls of leaf futures made in each round.

\* The futures polled in one round, in the order of their polls.
Ids(log) == [k \in 1..Len(log) |-> log[k].id]

\* How often future x was polled in one round.
PollsOf(x, log) == Cardinality({k \in 1..Len(log) : log[k].id = x})

\* Future x returned Completed in this round.
CompletedIn(x, log) ==
    \E k \in 1..Len(log) : log[k].id = x /\ log[k].res.tag = "Complete"

\* Future x returned Completed in a round of the driver before round i.
CompletedBefore(x, i) == \E j \in 1..(i - 1) : CompletedIn(x, hist[j].log)

\* The value future x completed with in round i or before it.
ResultOf(x, i) ==
    LET j == CHOOSE j \in 1..i : CompletedIn(x, hist[j].log)
        k == CHOOSE k \in 1..Len(hist[j].log) :
               hist[j].log[k].id = x /\ hist[j].log[k].res.tag = "Complete"
    IN  hist[j].log[k].res.val

\* Round i is one the contract allows: no earlier round returned Completed.
Allowed(i) == \A j \in 1..(i - 1) : hist[j].res.tag = "Yielded"

\* The Suspended results future x gave to the polls of the rounds of h.
SuspendedIn(x, h) ==
    LET n[i \in 0..Len(h)] ==
          IF i = 0 THEN 0
          ELSE n[i - 1] + Cardinality({k \in 1..Len(h[i].log) :
                 h[i].log[k].id = x /\ h[i].log[k].res.tag = "Yielded"})
    IN  n[Len(h)]

Max(x, y) == IF x >= y THEN x ELSE y

Completed == DoneAt(hist) > 0

----------------------------------------------------------------------------
\* C1. Await round-trip: async! { await!(leaf) } over a leaf that gives
\* Suspended N times and then Completed(v) returns Suspended on its first N
\* polls and Completed(v) on poll N + 1, and each of these polls polls the leaf
\* exactly once and hands its result on.
C1_AwaitRoundTrip ==
    kind = "await" =>
      \A i \in 1..Len(hist) :
        /\ i <= cfg.na =>
             /\ hist[i].res.tag = "Yielded"
             /\ hist[i].log = <<[id |-> A, res |-> Yielded(NotReady)]>>
        /\ i = cfg.na + 1 =>
             /\ hist[i].res.tag = "Complete"
             /\ hist[i].res.val = cfg.va
             /\ hist[i].log = <<[id |-> A, res |-> Complete(cfg.va)]>>

C1_Witness ==
    /\ kind = "await"
    /\ cfg.na >= 2
    /\ Len(hist) = cfg.na + 1
    /\ hist[Len(hist)].res.tag = "Complete"

\* C6. map preserves the suspension count: map(future, f) returns Suspended N
\* times and then Completed(f(v)); f has been applied once when map completed
\* and not at all while it only returned Suspended.
C6_MapSuspensions ==
    kind = "map" =>
      /\ \A i \in 1..Len(hist) :
           /\ i <= cfg.na => hist[i].res.tag = "Yielded"
           /\ i = cfg.na + 1 =>
                /\ hist[i].res.tag = "Complete"
                /\ hist[i].res.val = f(cfg.va)
      /\ mem.objs[ROOT].fcalls = (IF Completed THEN 1 ELSE 0)

C6_Witness ==
    /\ kind = "map"
    /\ cfg.na = 2
    /\ cfg.va = 5
    /\ Len(hist) = 3
    /\ hist[3].res = Complete(10)
    /\ mem.objs[ROOT].fcalls = 1

\* C2. Join completion gating: in every round join polls exactly the inputs
\* that did not return Completed in an earlier round, each of them once; the
\* round returns Suspended if an input is still pending after it and
\* Completed((ra, rb)) if both results are present.
C2_JoinGating ==
    kind = "join" =>
      \A i \in 1..Len(hist) :
        Allowed(i) =>
          /\ \A x \in {A, B} :
               PollsOf(x, hist[i].log) = (IF CompletedBefore(x, i) THEN 0 ELSE 1)
          /\ IF CompletedBefore(A, i + 1) /\ CompletedBefore(B, i + 1)
             THEN /\ hist[i].res.tag = "Complete"
                  /\ hist[i].res.val = <<ResultOf(A, i), ResultOf(B, i)>>
             ELSE hist[i].res.tag = "Yielded"

\* The spec's example: a completes on round 1 and b on round 3.
C2_Witness ==
    /\ kind = "join"
    /\ cfg.na = 0
    /\ cfg.nb = 2
    /\ Len(hist) = 3
    /\ hist[1].res.tag = "Yielded"
    /\ hist[2].res.tag = "Yielded"
    /\ Ids(hist[2].log) = <<B>>
    /\ Ids(hist[3].log) = <<B>>
    /\ hist[3].res = Complete(<<cfg.va, cfg.vb>>)

\* C10. Join suspension count: join(a, b) returns Suspended max(Na, Nb) times
\* and then Completed((va, vb)).
C10_JoinSuspensions ==
    kind = "join" =>
      \A i \in 1..Len(hist) :
        /\ i <= Max(cfg.na, cfg.nb) => hist[i].res.tag = "Yielded"
        /\ i = Max(cfg.na, cfg.nb) + 1 =>
             /\ hist[i].res.tag = "Complete"
             /\ hist[i].res.val = <<cfg.va, cfg.vb>>

\* Both inputs complete in the same round, which is not the first.
C10_Witness ==
    /\ kind = "join"
    /\ cfg.na = cfg.nb
    /\ cfg.na >= 1
    /\ Len(hist) = cfg.na + 1
    /\ hist[Len(hist)].res.tag = "Complete"
    /\ Ids(hist[Len(hist)].log) = <<A, B>>

\* C3. Select tie-break: if a and b complete on the same round, select
\* completes on that round with a's result and OneOf::B(b), and does not poll b
\* in that round.
C3_SelectTie ==
    (kind = "select" /\ cfg.na = cfg.nb) =>
      \A i \in 1..Len(hist) :
        /\ i <= cfg.na => hist[i].res.tag = "Yielded"
        /\ i = cfg.na + 1 =>
             /\ hist[i].res.tag = "Complete"
             /\ hist[i].res.val = <<cfg.va, OneOf_B(Own(B))>>
             /\ Ids(hist[i].log) = <<A>>

C3_Witness ==
    /\ kind = "select"
    /\ cfg.na = cfg.nb
    /\ cfg.na >= 1
    /\ cfg.va # cfg.vb
    /\ Len(hist) = cfg.na + 1
    /\ hist[Len(hist)].res.tag = "Complete"

\* The leaf a OneOf holds, and what that leaf was built with.
LoserId == loser.v.fut.id

LoserN == IF LoserId = A THEN cfg.na ELSE cfg.nb

LoserVal == IF LoserId = A THEN cfg.va ELSE cfg.vb

\* C4. Select returns a live loser: the future in the OneOf is the one that
\* did not win and it has not returned Completed; a poll of the OneOf is one
\* poll of that future, whose result it returns; the future completes with its
\* own value, and the Suspended results it gave during the race and after it
\* are as many as it gives alone.
C4_LiveLoser ==
    (kind = "select" /\ loser.some) =>
      /\ loser.v \in {OneOf_A(Own(A)), OneOf_B(Own(B))}
      /\ ~CompletedBefore(LoserId, Len(hist) + 1)
      /\ CompletedBefore(IF LoserId = A THEN B ELSE A, Len(hist) + 1)
      /\ \A i \in 1..Len(lhist) :
           /\ lhist[i].log = <<[id |-> LoserId, res |-> lhist[i].res]>>
           /\ lhist[i].res.tag \in {"Yielded", "Complete"}
           /\ lhist[i].res.tag = "Complete" =>
                /\ lhist[i].res.val = LoserVal
                /\ SuspendedIn(LoserId, hist) + SuspendedIn(LoserId, lhist) = LoserN

\* b won on a later round, a was polled during the race and went on afterwards.
C4_Witness ==
    /\ kind = "select"
    /\ loser.some
    /\ loser.v = OneOf_A(Own(A))
    /\ SuspendedIn(A, hist) >= 2
    /\ SuspendedIn(A, lhist) >= 1
    /\ Len(lhist) >= 2
    /\ lhist[Len(lhist)].res = Complete(cfg.va)

\* C5 as stated: when select completes via a, select never polled b and hands
\* b back as it was passed in.
C5_LoserUntouched ==
    (kind = "select" /\ loser.some /\ loser.v.tag = "B") =>
      /\ \A i \in 1..Len(hist) : PollsOf(B, hist[i].log) = 0
      /\ lhist = <<>> => mem.objs[B] = Leaf(cfg.nb, cfg.vb, cfg.after)

\* C5, amended. When select completes via a on round k, it polled b once in
\* each of the k - 1 rounds before, each time with the result Suspended, and not
\* in round k; b is handed back in OneOf::B advanced by those k - 1 polls, so
\* untouched exactly when a completed on the first round.
C5_LoserAdvancedByEarlierRounds ==
    (kind = "select" /\ loser.some /\ loser.v.tag = "B") =>
      LET k == DoneAt(hist)
      IN  /\ loser.v = OneOf_B(Own(B))
          /\ \A i \in 1..(k - 1) :
               /\ PollsOf(B, hist[i].log) = 1
               /\ ~CompletedIn(B, hist[i].log)
          /\ PollsOf(B, hist[k].log) = 0
          /\ lhist = <<>> =>
               mem.objs[B] = [Leaf(cfg.nb, cfg.vb, cfg.after)
                                EXCEPT !.left = cfg.nb - (k - 1), !.polls = k - 1]

C5_Witness ==
    /\ kind = "select"
    /\ loser.some
    /\ loser.v.tag = "B"
    /\ DoneAt(hist) >= 3
    /\ lhist = <<>>
    /\ mem.objs[B].polls = DoneAt(hist) - 1

\* The results a driver gets that polls the future `id` until it no longer
\* returns Suspended, after the results `out` it already has.
RECURSIVE Driven(_, _, _)
Driven(m, id, out) ==
    LET p == AsFuture_poll(m, id)
    IN  IF p.res.tag # "Yielded" \/ Len(out) + 1 >= MaxRounds
        THEN Append(out, p.res)
        ELSE Driven(p.m, id, Append(out, p.res))

\* select(a, b) over the leaves of configuration c, driven to its completion.
SelectAlone(c) == Driven(Alloc(InitMem(c), select(Own(A), Own(B))), ROOT, <<>>)

\* C7. race discards correctly: race(a, b) returns Suspended on the rounds on
\* which select(a, b) does and completes on the round on which select(a, b)
\* completes, with the result component of select's (result, OneOf).
C7_RaceIsSelectResult ==
    kind = "race" =>
      LET s == SelectAlone(cfg)
      IN  \A i \in 1..Len(hist) :
            i <= Len(s) =>
              /\ hist[i].res.tag = s[i].tag
              /\ s[i].tag = "Complete" => hist[i].res.val = s[i].val[1]

\* b wins the race after both were suspended.
C7_Witness ==
    /\ kind = "race"
    /\ cfg.nb >= 1
    /\ cfg.na > cfg.nb
    /\ cfg.va # cfg.vb
    /\ Completed
    /\ hist[DoneAt(hist)].res.val = cfg.vb
    /\ DoneAt(hist) = Len(SelectAlone(cfg))

\* C8. Single completion: once a future built by async! returned Completed,
\* every further poll of it panics; it returns neither Suspended nor a value
\* and polls no input future.
C8_PollAfterCompletionPanics ==
    \A i \in 1..Len(hist) :
      \A j \in (i + 1)..Len(hist) :
        hist[i].res.tag = "Complete" =>
          /\ hist[j].res.tag = "Panic"
          /\ hist[j].log = <<>>

C8_Witness ==
    /\ kind \in {"race", "join"}
    /\ Completed
    /\ DoneAt(hist) >= 2
    /\ Len(hist) = DoneAt(hist) + 2
    /\ hist[Len(hist)].res.tag = "Panic"

\* C9 as stated: in every round of select and of join, a is polled before b,
\* and b is not polled unless a is.
C9_FirstBeforeSecond ==
    kind \in {"select", "join"} =>
      \A i \in 1..Len(hist) : Ids(hist[i].log) \in {<<>>, <<A>>, <<A, B>>}

\* C9, amended. In every round of select a is polled first and b only after
\* it. In every round of join in which both are polled, a is polled before b;
\* join polls b without a only in rounds after the one in which a completed.
C9_FirstBeforeSecondWhilePending ==
    kind \in {"select", "join"} =>
      \A i \in 1..Len(hist) :
        /\ Ids(hist[i].log) \in {<<>>, <<A>>, <<A, B>>, <<B>>}
        /\ Ids(hist[i].log) = <<B>> => kind = "join" /\ CompletedBefore(A, i)
        /\ Ids(hist[i].log) = <<>> => ~Allowed(i)

\* join polls b alone after a completed, and before that both, a first.
C9_Witness ==
    /\ kind = "join"
    /\ Len(hist) >= 3
    /\ Ids(hist[1].log) = <<A, B>>
    /\ CompletedIn(A, hist[2].log)
    /\ Ids(hist[3].log) = <<B>>

\* Every poll of a leaf future the driver's polls led to, in their order (the
\* polls of the future select handed back come after select's own).
AllPolls ==
    LET F[i \in 0..Len(hist)] == IF i = 0 THEN <<>> ELSE F[i - 1] \o hist[i].log
        G[i \in 0..Len(lhist)] == IF i = 0 THEN <<>> ELSE G[i - 1] \o lhist[i].log
    IN  F[Len(hist)] \o G[Len(lhist)]

\* C11. No combinator re-advances a completed input, for the combinators alone
\* and nested in each other: no leaf future is polled after the poll at which
\* it returned Completed, and no round the contract allows ends in the panic
\* with which a nested future built by async! answers a poll after its
\* completion.
C11_NoPollAfterCompleted ==
    /\ \A p \in 1..Len(AllPolls) :
         AllPolls[p].res.tag = "Complete" =>
           \A q \in (p + 1)..Len(AllPolls) : AllPolls[q].id # AllPolls[p].id
    /\ \A i \in 1..Len(hist) : Allowed(i) => hist[i].res.tag # "Panic"

\* An inner race and then an inner leaf completed, rounds before the join over
\* them did.
C11_Witness ==
    /\ kind = "join(race(a,b),c)"
    /\ Completed
    /\ DoneAt(hist) >= 3
    /\ CompletedIn(A, hist[1].log)
    /\ Len(hist[2].log) = 1
    /\ Len(hist) > DoneAt(hist)

Min(x, y) == IF x <= y THEN x ELSE y

\* C12. Select round structure: in each of the first min(Na, Nb) rounds select
\* polls a and then b, both are Suspended and the round returns one Suspended;
\* the next round starts again with a, and round min(Na, Nb) + 1 completes with
\* a's value if Na <= Nb and with b's value otherwise.
C12_SelectRounds ==
    kind = "select" =>
      \A i \in 1..Len(hist) :
        /\ i <= Min(cfg.na, cfg.nb) =>
             /\ hist[i].res = Yielded(NotReady)
             /\ hist[i].log = <<[id |-> A, res |-> Yielded(NotReady)],
                                [id |-> B, res |-> Yielded(NotReady)]>>
        /\ i = Min(cfg.na, cfg.nb) + 1 =>
             /\ hist[i].res.tag = "Complete"
             /\ hist[i].res.val[1] = (IF cfg.na <= cfg.nb THEN cfg.va ELSE cfg.vb)
             /\ hist[i].log[1].id = A

\* b wins on the third round or later.
C12_Witness ==
    /\ kind = "select"
    /\ cfg.nb >= 2
    /\ cfg.na > cfg.nb
    /\ cfg.va # cfg.vb
    /\ Completed
    /\ DoneAt(hist) = cfg.nb + 1
    /\ hist[DoneAt(hist)].res.val = <<cfg.vb, OneOf_A(Own(A))>>

\* C13. Await polls only the current future: a body that awaits a and then b
\* polls a alone while a is Suspended, a and then b in the round in which a
\* completes, and b alone afterwards; it returns Suspended Na + Nb times and
\* then completes with a's result, kept since the first await, and b's.
C13_AwaitInSequence ==
    kind = "seq" =>
      \A i \in 1..Len(hist) :
        /\ Allowed(i) =>
             Ids(hist[i].log) = (IF i <= cfg.na THEN <<A>>
                                 ELSE IF i = cfg.na + 1 THEN <<A, B>>
                                 ELSE <<B>>)
        /\ i <= cfg.na + cfg.nb => hist[i].res.tag = "Yielded"
        /\ i = cfg.na + cfg.nb + 1 =>
             /\ hist[i].res.tag = "Complete"
             /\ hist[i].res.val = <<cfg.va, cfg.vb>>

\* Both awaits suspended the body at least twice.
C13_Witness ==
    /\ kind = "seq"
    /\ cfg.na >= 2
    /\ cfg.nb >= 2
    /\ cfg.va # cfg.vb
    /\ Completed
    /\ DoneAt(hist) = cfg.na + cfg.nb + 1
    /\ mem.objs[ROOT].ra = Some(cfg.va)

\* C14. Progress under a driver that keeps polling: map completes if its
\* future does, join completes if both inputs do, and select and race complete
\* if at least one input does, whether or not the other ever completes.
C14_Progress ==
    /\ (kind = "map" /\ cfg.na # Never) ~> Completed
    /\ (kind = "join" /\ cfg.na # Never /\ cfg.nb # Never) ~> Completed
    /\ (kind \in {"select", "race"} /\ (cfg.na # Never \/ cfg.nb # Never))
         ~> Completed

\* race completed through b after rounds in which a, which never completes,
\* was Suspended.
C14_Witness ==
    /\ kind = "race"
    /\ cfg.na = Never
    /\ cfg.nb >= 2
    /\ Completed
    /\ hist[DoneAt(hist)].res.val = cfg.vb

\* The rounds (result and polls of leaf futures) of a driver that polls the
\* future `id` itself until it no longer returns Suspended.
RECURSIVE DrivenRounds(_, _, _)
DrivenRounds(m, id, out) ==
    LET p == AsFuture_poll([m EXCEPT !.log = <<>>], id)
        seen == Append(out, [res |-> p.res, log |-> p.m.log])
    IN  IF p.res.tag # "Yielded" \/ Len(seen) >= MaxRounds
        THEN seen
        ELSE DrivenRounds(p.m, id, seen)

\* join(a, b) over the leaves of configuration c, polled as itself only.
JoinAlone(c) == DrivenRounds(Alloc(InitMem(c), join(Own(A), Own(B))), ROOT, <<>>)

\* C15. Reference forwarding is transparent: whichever polls of a future are
\* made through a mutable borrow of it, every poll returns the result and
\* makes the polls of its inputs that the same poll makes when all polls are
\* made of the future itself. A poll of the OneOf select handed back is one
\* poll of the future its tag names, with that poll's result.
C15_ForwardingTransparent ==
    /\ kind = "borrow" =>
         \A i \in 1..Len(hist) :
           i <= Len(JoinAlone(cfg)) => hist[i] = JoinAlone(cfg)[i]
    /\ (kind = "select" /\ loser.some) =>
         \A i \in 1..Len(lhist) :
           lhist[i].log =
             <<[id |-> (IF loser.v.tag = "A" THEN A ELSE B), res |-> lhist[i].res]>>

\* Polls of the future and polls through the borrow alternate up to the
\* completion, which a poll through the borrow returns.
C15_Witness ==
    /\ kind = "borrow"
    /\ cfg.na # cfg.nb
    /\ DoneAt(hist) = 4
    /\ Len(lhist) = 2
    /\ lhist[1].at = 2
    /\ lhist[2].at = 4
    /\ lhist[2].res = Complete(<<cfg.va, cfg.vb>>)

====
